---- MODULE Spec2Model ----
(***************************************************************************)
(* LibDS, FRC 2015 communication protocol (protocols/frc_2015.c): the      *)
(* packet builders, the packet parsers, the watchdog reset hooks and the   *)
(* reboot / restart requests, over the DS_Config store they read and write.*)
(*                                                                         *)
(* Bytes are naturals 0..255.  A C array index i is the sequence index     *)
(* i + 1.  The robot voltage is a double in the source; here it is an      *)
(* exact rational with the fixed denominator VoltDen = 255 * 256, so that  *)
(* both k/256 (the grid of the documentation) and hi + lo/255 (what        *)
(* decode_voltage computes) are integers.                                  *)
(***************************************************************************)
EXTENDS Integers, Sequences, FiniteSets, TLC

(* ---------------------------- protocol bytes --------------------------- *)
cTest == 1
cEnabled == 4
cAutonomous == 2
cTeleoperated == 0
cFMS_Attached == 8
cEmergencyStop == 128
cRequestReboot == 8
cRequestNormal == 128
cRequestUnconnected == 0
cRequestRestartCode == 4
cFMS_RadioPing == 16
cFMS_RobotPing == 8
cFMS_RobotComms == 32
cFMS_DS_Version == 0
cTagDate == 15
cTagGeneral == 1
cTagJoystick == 12
cTagTimezone == 16
cRed1 == 0
cRed2 == 1
cRed3 == 2
cBlue1 == 3
cBlue2 == 4
cBlue3 == 5
cRTagCANInfo == 14
cRTagCPUInfo == 5
cRTagRAMInfo == 6
cRTagDiskInfo == 4
cRequestTime == 1
cRobotHasCode == 32

\* The joystick limits the descriptor publishes.
max_joysticks == 6
max_axis_count == 6
max_hat_count == 1
max_button_count == 10

(* ------------------------------- bounds -------------------------------- *)
\* Threads that call DS_GetProtocolFRC_2015.
MaxThreads == 2
\* Joysticks attached when every joystick shape is tried.
MaxSticks == 2
\* Packets of each builder built statement by statement.
MaxBuilds == 2
\* Calls of create_robot_packet explored from a fresh protocol.
MaxPackets == 7
\* Calls of create_fms_packet explored from a fresh protocol.
MaxFmsPackets == 2

(* --------------------------- integer helpers --------------------------- *)
Pow2(n) == 2 ^ n

\* Bitwise AND of two naturals below 2^16, bit by bit.
RECURSIVE BitAndFrom(_, _, _)
BitAndFrom(a, b, n) ==
    IF n = 0 THEN 0
    ELSE LET m == Pow2(n - 1)
         IN  (IF (a \div m) % 2 = 1 /\ (b \div m) % 2 = 1 THEN m ELSE 0)
             + BitAndFrom(a, b, n - 1)

BitAnd(a, b) == BitAndFrom(a, b, 16)

\* Bitwise OR of two naturals below 2^16.
BitOr(a, b) == a + b - BitAnd(a, b)

\* (x & 0xff00) >> 8 and (x & 0xff) of a non-negative int.
HighByte(x) == BitAnd(x, 65280) \div 256
LowByte(x) == BitAnd(x, 255)

\* The big-endian 16-bit number in bytes [0..2) of a packet.
PacketIndex(p) == p[1] * 256 + p[2]

(* ------------------------------ voltage -------------------------------- *)
VoltDen == 255 * 256

\* decode_voltage: (double) upper + ((double) lower / 0xff).
decode_voltage(upper, lower) == upper * VoltDen + lower * 256

\* encode_voltage: upper = (uint8_t) voltage;
\*                 lower = (uint8_t) (voltage - (int) voltage) * 100;
\* the cast binds tighter than the product, so the fraction is truncated
\* to an integer before it is multiplied.  Defined for 0 <= voltage < 256.
encode_voltage(voltage) ==
    LET whole    == voltage \div VoltDen
        fraction == voltage - whole * VoltDen
        cast     == fraction \div VoltDen
    IN  [upper |-> whole % 256, lower |-> (cast * 100) % 256]

(* ------------------------------- state --------------------------------- *)
VARIABLES
    cfg,                 \* the DS_Config store read and written through CFG_*
    joysticks,           \* the attached joysticks (DS_Joysticks), in order
    send_time_data,      \* static int send_time_data
    sent_fms_packets,    \* static int sent_fms_packets
    sent_robot_packets,  \* static int sent_robot_packets
    reboot,              \* static int reboot
    restart_code,        \* static int restart_code
    alive,               \* FALSE once the process has been aborted
    ret,                 \* the last call: its name and what it returned
    prev_fms_index,      \* history: bytes [0..2) of the FMS packet before
    prev_robot_index,    \* history: bytes [0..2) of the robot packet before
    since_reset,         \* history: reset_robot ran, and since then neither
                         \* reboot_robot, restart_robot_code nor the robot
                         \* builder
    time_built,          \* history: a robot packet was built with
                         \* send_time_data set
    protocol,            \* static DS_Protocol* protocol: 0 is NULL, else the
                         \* number of a block
    blocks,              \* the DS_Protocol blocks malloc has handed out
    threads,             \* each thread's place in DS_GetProtocolFRC_2015
    got,                 \* what each thread's last call returned
    building             \* a builder run statement by statement: where it
                         \* is, what it has read, and history: the values
                         \* the store has held since it began

statics == <<send_time_data, sent_fms_packets, sent_robot_packets,
             reboot, restart_code>>
program == <<cfg, joysticks, statics, alive>>
history == <<prev_fms_index, prev_robot_index, since_reset, time_built>>
descriptor == <<protocol, blocks, threads, got>>
vars == <<program, ret, history, descriptor, building>>

ControlModes ==
    {"DS_CONTROL_TEST", "DS_CONTROL_AUTONOMOUS", "DS_CONTROL_TELEOPERATED"}
Alliances == {"DS_ALLIANCE_RED", "DS_ALLIANCE_BLUE"}
Positions == {"DS_POSITION_1", "DS_POSITION_2", "DS_POSITION_3"}

\* No packet: what a call that returns no buffer leaves in ret.packet.
NoPacket == <<>>

\* No builder is between two of its statements.
NotBuilding ==
    [at |-> "idle", high |-> 0, teams |-> {}, alliances |-> {},
     positions |-> {}]

\* The index history before the first packet of a peer.
NoIndex == 0 - 1

(* ------------------ DS_Config getters used by the protocol ------------- *)
CFG_GetControlMode == cfg.control_mode
CFG_GetRobotEnabled == cfg.robot_enabled
CFG_GetEmergencyStopped == cfg.emergency_stopped
CFG_GetFMSCommunications == cfg.fms_communications
CFG_GetRadioCommunications == cfg.radio_communications
CFG_GetRobotCommunications == cfg.robot_communications
CFG_GetAlliance == cfg.alliance
CFG_GetPosition == cfg.position
CFG_GetTeamNumber == cfg.team_number
CFG_GetRobotVoltage == cfg.robot_voltage

(* ----------------------- control / request / station ------------------- *)
\* A mutant of ModeBits: Teleoperated gets a bit of its own, as if
\* cTeleoperated were 0x03 rather than 0x00.
ModeBitsTeleopBit(mode) ==
    CASE mode = "DS_CONTROL_TEST" -> cTest
      [] mode = "DS_CONTROL_AUTONOMOUS" -> cAutonomous
      [] OTHER -> cTest + cAutonomous

\* The switch on the control mode shared by both control codes:
\* code |= cTest, code |= cAutonomous or code |= cTeleoperated.
ModeBits(mode) ==
    CASE mode = "DS_CONTROL_TEST" -> cTest
      [] mode = "DS_CONTROL_AUTONOMOUS" -> cAutonomous
      [] mode = "DS_CONTROL_TELEOPERATED" -> cTeleoperated
      [] OTHER -> 0

\* A mutant of fms_control_code: the robot-comms flag sets only the ping bit.
fms_control_code_one_robot_bit ==
    LET c0 == BitOr(0, ModeBits(CFG_GetControlMode))
        c1 == IF CFG_GetEmergencyStopped THEN BitOr(c0, cEmergencyStop) ELSE c0
        c2 == IF CFG_GetRobotEnabled THEN BitOr(c1, cEnabled) ELSE c1
        c3 == IF CFG_GetRadioCommunications THEN BitOr(c2, cFMS_RadioPing) ELSE c2
    IN  IF CFG_GetRobotCommunications THEN BitOr(c3, cFMS_RobotPing) ELSE c3

fms_control_code ==
    LET c0 == BitOr(0, ModeBits(CFG_GetControlMode))
        c1 == IF CFG_GetEmergencyStopped THEN BitOr(c0, cEmergencyStop) ELSE c0
        c2 == IF CFG_GetRobotEnabled THEN BitOr(c1, cEnabled) ELSE c1
        c3 == IF CFG_GetRadioCommunications THEN BitOr(c2, cFMS_RadioPing) ELSE c2
    IN  IF CFG_GetRobotCommunications
        THEN BitOr(BitOr(c3, cFMS_RobotComms), cFMS_RobotPing)
        ELSE c3

get_control_code ==
    LET c0 == BitOr(0, ModeBits(CFG_GetControlMode))
        c1 == IF CFG_GetFMSCommunications THEN BitOr(c0, cFMS_Attached) ELSE c0
        c2 == IF CFG_GetEmergencyStopped THEN BitOr(c1, cEmergencyStop) ELSE c1
    IN  IF CFG_GetRobotEnabled THEN BitOr(c2, cEnabled) ELSE c2

get_request_code ==
    IF CFG_GetRobotCommunications
    THEN IF reboot # 0 THEN cRequestReboot
         ELSE IF restart_code # 0 THEN cRequestRestartCode
         ELSE cRequestNormal
    ELSE cRequestUnconnected

\* A mutant of get_station_code: the alliance test the other way round.
get_station_code_alliance_swapped ==
    IF CFG_GetPosition = "DS_POSITION_1"
    THEN IF CFG_GetAlliance = "DS_ALLIANCE_RED" THEN cBlue1 ELSE cRed1
    ELSE IF CFG_GetPosition = "DS_POSITION_2"
    THEN IF CFG_GetAlliance = "DS_ALLIANCE_RED" THEN cBlue2 ELSE cRed2
    ELSE IF CFG_GetPosition = "DS_POSITION_3"
    THEN IF CFG_GetAlliance = "DS_ALLIANCE_RED" THEN cBlue3 ELSE cRed3
    ELSE cRed1

get_station_code ==
    IF CFG_GetPosition = "DS_POSITION_1"
    THEN IF CFG_GetAlliance = "DS_ALLIANCE_RED" THEN cRed1 ELSE cBlue1
    ELSE IF CFG_GetPosition = "DS_POSITION_2"
    THEN IF CFG_GetAlliance = "DS_ALLIANCE_RED" THEN cRed2 ELSE cBlue2
    ELSE IF CFG_GetPosition = "DS_POSITION_3"
    THEN IF CFG_GetAlliance = "DS_ALLIANCE_RED" THEN cRed3 ELSE cBlue3
    ELSE cRed1

\* A mutant of get_alliance: every byte that is not a red station is blue.
get_alliance_blue_fallback(byte) ==
    IF byte = cRed1 \/ byte = cRed2 \/ byte = cRed3
    THEN "DS_ALLIANCE_RED"
    ELSE "DS_ALLIANCE_BLUE"

get_alliance(byte) ==
    IF byte = cBlue1 \/ byte = cBlue2 \/ byte = cBlue3
    THEN "DS_ALLIANCE_BLUE"
    ELSE "DS_ALLIANCE_RED"

get_position(byte) ==
    IF byte = cRed1 \/ byte = cBlue1 THEN "DS_POSITION_1"
    ELSE IF byte = cRed2 \/ byte = cBlue2 THEN "DS_POSITION_2"
    ELSE IF byte = cRed3 \/ byte = cBlue3 THEN "DS_POSITION_3"
    ELSE "DS_POSITION_1"

(* ------------------------------ joysticks ------------------------------ *)
\* A joystick is [axes, buttons, hats]: the axis values already scaled,
\* (uint8_t) (DS_GetJoystickAxis (i, a) * 127), the button states and the
\* hat values.
DS_GetJoystickCount == Len(joysticks)
DS_GetJoystickNumAxes(i) == Len(joysticks[i + 1].axes)
DS_GetJoystickNumHats(i) == Len(joysticks[i + 1].hats)
DS_GetJoystickNumButtons(i) == Len(joysticks[i + 1].buttons)

get_joystick_size(joystick) ==
    LET header_size == 2
        button_data == 3
        axis_data   == DS_GetJoystickNumAxes(joystick) + 1
        hat_data    == (DS_GetJoystickNumHats(joystick) * 2) + 1
    IN  (header_size + button_data + axis_data + hat_data) % 256

\* A byte of a block that realloc grew and nothing has written yet.
Indet == 0 - 1

\* length += get_joystick_size (i), over the joysticks before joystick n.
RECURSIVE JoystickLength(_)
JoystickLength(n) ==
    IF n = 0 THEN 0 ELSE JoystickLength(n - 1) + get_joystick_size(n - 1)

\* uint8_t button_flags; button_flags += pressed ? pow (2, b) : 0, over the
\* buttons before button n of joystick i.
RECURSIVE button_flags(_, _)
button_flags(i, n) ==
    IF n = 0 THEN 0
    ELSE (button_flags(i, n - 1)
          + (IF joysticks[i + 1].buttons[n] THEN Pow2(n - 1) ELSE 0)) % 256

\* The bytes the loop body writes for joystick i, whose block starts at pos:
\* a function from the C indexes it writes to the bytes written.  The index
\* pos + 2 + axes is skipped: the button count goes to data [pos + 1] after
\* pos has passed the axes.
JoystickWrites(i, pos) ==
    LET A  == DS_GetJoystickNumAxes(i)
        H  == DS_GetJoystickNumHats(i)
        p  == pos + 2 + A
        q  == p + 4
        flags == button_flags(i, DS_GetJoystickNumButtons(i))
    IN  [c \in ({pos, pos + 1} \cup (pos + 2 .. pos + 1 + A)
                \cup {p + 1, p + 2, p + 3, q} \cup (q + 1 .. q + 2 * H)) |->
            IF c = pos THEN get_joystick_size(i)
            ELSE IF c = pos + 1 THEN cTagJoystick
            ELSE IF c < p THEN joysticks[i + 1].axes[c - pos - 1]
            ELSE IF c = p + 1 THEN DS_GetJoystickNumButtons(i) % 256
            ELSE IF c = p + 2 THEN HighByte(flags)
            ELSE IF c = p + 3 THEN LowByte(flags)
            ELSE IF c = q THEN H
            ELSE IF (c - q) % 2 = 1
                 THEN HighByte(joysticks[i + 1].hats[(c - q + 1) \div 2])
                 ELSE LowByte(joysticks[i + 1].hats[(c - q) \div 2])]

\* The block after the loop has run over the joysticks before joystick n.
RECURSIVE JoystickLoop(_, _, _)
JoystickLoop(data, offset, n) ==
    IF n = 0 THEN data
    ELSE LET before == JoystickLoop(data, offset, n - 1)
             w      == JoystickWrites(n - 1, offset + JoystickLength(n - 1))
         IN  [k \in 1..Len(before) |->
                 IF (k - 1) \in DOMAIN w THEN w[k - 1] ELSE before[k]]

\* add_joystick_data when realloc grows the block where it is: the block of
\* sizeof (data) + length bytes, the new bytes indeterminate until written.
add_joystick_data(data, offset) ==
    LET length == JoystickLength(DS_GetJoystickCount)
        grown  == data \o [k \in 1..length |-> Indet]
    IN  JoystickLoop(grown, offset, DS_GetJoystickCount)

(* ------------------------------ timezone ------------------------------- *)
\* struct tm values localtime may hand back for the uninitialised time_t.
TimeValues ==
    { [tm_sec |-> 0, tm_min |-> 0, tm_hour |-> 0, tm_yday |-> 0,
       tm_mon |-> 0, tm_year |-> 70],
      [tm_sec |-> 59, tm_min |-> 59, tm_hour |-> 23, tm_yday |-> 364,
       tm_mon |-> 11, tm_year |-> 116] }

\* DS_SizeOf (tz) for the time zone abbreviation ("UTC", "CEST").
TimezoneLengths == {3, 4}

\* add_timezone_data when realloc grows the block where it is and the call
\* returns: the block has sizeof (data) + length bytes; the writes at
\* offset + 0 .. offset + 11 that fall past its end land outside the block.
\* The copy loop (i > length) writes nothing.
add_timezone_data(data, offset, timeinfo, length) ==
    LET written == <<11, cTagDate, 0, 0,
                     timeinfo.tm_sec % 256, timeinfo.tm_min % 256,
                     timeinfo.tm_hour % 256, timeinfo.tm_yday % 256,
                     timeinfo.tm_mon % 256, timeinfo.tm_year % 256,
                     length % 256, cTagTimezone>>
        grown   == data \o [k \in 1..length |-> Indet]
    IN  [k \in 1..Len(grown) |->
            IF k - 1 >= offset /\ k - 1 < offset + 12
            THEN written[k - offset] ELSE grown[k]]

\* What the caller finds behind the pointer when realloc moved the block:
\* the old block is freed, its first bytes overwritten by the allocator.
FreedBlocks ==
    { <<83, 47, 193, 135, 99, 85, 0, 0>>, <<0, 0, 0, 0, 0, 0, 0, 0>> }

(* ------------------ DS_Config setters used by the protocol ------------- *)
CFG_SetRobotEnabled(c, enabled) == [c EXCEPT !.robot_enabled = (enabled # 0)]
CFG_SetControlMode(c, mode) == [c EXCEPT !.control_mode = mode]
CFG_SetAlliance(c, a) == [c EXCEPT !.alliance = a]
CFG_SetPosition(c, p) == [c EXCEPT !.position = p]
CFG_SetRobotCode(c, code) == [c EXCEPT !.robot_code = (code # 0)]
CFG_SetEmergencyStopped(c, stop) == [c EXCEPT !.emergency_stopped = (stop # 0)]
CFG_SetRobotVoltage(c, v) == [c EXCEPT !.robot_voltage = v]
CFG_SetCANUtilization(c, v) == [c EXCEPT !.can_utilization = v]
CFG_SetRobotCPUUsage(c, v) == [c EXCEPT !.cpu_usage = v]
CFG_SetRobotRAMUsage(c, v) == [c EXCEPT !.ram_usage = v]
CFG_SetRobotDiskUsage(c, v) == [c EXCEPT !.disk_usage = v]
CFG_SetTeamNumber(c, team) == [c EXCEPT !.team_number = team]

(* ------------------------------ the calls ------------------------------ *)
\* What a call leaves for its caller: the buffer a builder returns (packet),
\* the first six bytes as the robot builder stored them before it handed the
\* buffer on (header), and the int a parser returns (code).  The rest is
\* history: the three latches as reset_robot found them (latched), the bytes
\* of the datagram a parser was given (read) and the store as the parser
\* found it (before).
Returned(op, packet, header, code) ==
    [op |-> op, packet |-> packet, header |-> header, code |-> code,
     latched |-> <<>>, read |-> <<>>, before |-> <<>>]

\* What a parser leaves for its caller.
Parsed(op, data, code) ==
    [Returned(op, NoPacket, NoPacket, code) EXCEPT
        !.read = data.bytes, !.before = cfg]

\* A mutant of FmsPacketBytes: the counter's bytes in little-endian order.
FmsPacketBytesLittleEndian ==
    LET v == encode_voltage(CFG_GetRobotVoltage)
    IN  << LowByte(sent_fms_packets), HighByte(sent_fms_packets),
           cFMS_DS_Version, fms_control_code,
           HighByte(CFG_GetTeamNumber), LowByte(CFG_GetTeamNumber),
           v.upper, v.lower >>

\* The eight bytes create_fms_packet stores in its calloc'ed buffer.
FmsPacketBytes ==
    LET v == encode_voltage(CFG_GetRobotVoltage)
    IN  << HighByte(sent_fms_packets), LowByte(sent_fms_packets),
           cFMS_DS_Version, fms_control_code,
           HighByte(CFG_GetTeamNumber), LowByte(CFG_GetTeamNumber),
           v.upper, v.lower >>

\* The end of create_fms_packet, with the eight bytes it has stored.
ReturnFmsPacket(bytes) ==
    /\ alive
    /\ UNCHANGED descriptor
    /\ ret' = Returned("create_fms_packet", bytes, NoPacket, 0)
    /\ sent_fms_packets' = sent_fms_packets + 1
    /\ prev_fms_index' = PacketIndex(bytes)
    /\ UNCHANGED <<cfg, joysticks, send_time_data, sent_robot_packets,
                   reboot, restart_code, alive, prev_robot_index,
                   since_reset, time_built>>

\* create_fms_packet with nothing else running between its statements.
create_fms_packet ==
    /\ ReturnFmsPacket(FmsPacketBytes)
    /\ UNCHANGED building

\* return (uint8_t*) null_char: no buffer is built.
create_radio_packet ==
    /\ alive
    /\ UNCHANGED <<descriptor, building>>
    /\ ret' = Returned("create_radio_packet", NoPacket, NoPacket, 0)
    /\ UNCHANGED <<program, history>>

\* The six header bytes create_robot_packet stores in its calloc'ed buffer.
RobotHeaderBytes ==
    << HighByte(sent_robot_packets), LowByte(sent_robot_packets),
       cTagGeneral, get_control_code, get_request_code, get_station_code >>

\* The payload branch of create_robot_packet and what the caller gets back.
\* data is the calloc'ed block of 8 bytes with the header stored.  Both
\* add_timezone_data and add_joystick_data realloc their own copy of the
\* pointer: when the block has to grow, realloc either grows it where it is
\* (the caller's pointer stays good) or moves it (the caller's pointer is
\* freed memory).  add_timezone_data also frees the struct tm localtime
\* returned, which no allocator handed out: the call may abort the process.
RobotOutcomes(data) ==
    IF send_time_data # 0
    THEN { [aborted |-> TRUE, packet |-> NoPacket] }
         \cup { [aborted |-> FALSE,
                 packet |-> add_timezone_data(data, 6, t, n)] :
                    t \in TimeValues, n \in TimezoneLengths }
         \cup { [aborted |-> FALSE, packet |-> f] : f \in FreedBlocks }
    ELSE IF sent_robot_packets > 5
    THEN { [aborted |-> FALSE, packet |-> add_joystick_data(data, 6)] }
         \cup (IF JoystickLength(DS_GetJoystickCount) > 0
               THEN { [aborted |-> FALSE, packet |-> f] : f \in FreedBlocks }
               ELSE {})
    ELSE { [aborted |-> FALSE, packet |-> data] }

\* create_robot_packet from the payload branch on, with the six header
\* bytes it has stored.
ReturnRobotPacket(header) ==
    /\ alive
    /\ UNCHANGED descriptor
    /\ \E out \in RobotOutcomes(header \o <<0, 0>>) :
          IF out.aborted
          THEN /\ alive' = FALSE
               /\ ret' = Returned("abort", NoPacket, header, 0)
               /\ UNCHANGED <<sent_robot_packets, prev_robot_index>>
          ELSE /\ alive' = TRUE
               /\ ret' = Returned("create_robot_packet", out.packet,
                                  header, 0)
               /\ sent_robot_packets' = sent_robot_packets + 1
               /\ prev_robot_index' = PacketIndex(out.packet)
    /\ since_reset' = FALSE
    /\ time_built' = (time_built \/ send_time_data # 0)
    /\ UNCHANGED <<cfg, joysticks, send_time_data, sent_fms_packets,
                   reboot, restart_code, prev_fms_index>>

\* create_robot_packet with nothing else running between its statements.
create_robot_packet ==
    /\ ReturnRobotPacket(RobotHeaderBytes)
    /\ UNCHANGED building

(* ------------------------------ parsers -------------------------------- *)
\* An inbound datagram: a null pointer, or the bytes received.
NullData == [null |-> TRUE, bytes |-> <<>>]
Datagram(bytes) == [null |-> FALSE, bytes |-> bytes]

\* What a read past the end of the datagram may find.
StaleBytes == {0, 255}

\* The values data [i] may have: the byte received, or a stale one.
ByteAt(data, i) ==
    IF i < Len(data.bytes) THEN {data.bytes[i + 1]} ELSE StaleBytes

DS_SizeOf(data) == Len(data.bytes)

\* A mutant of FmsControlMode: the mode bits tested in the other order.
FmsControlModeTestFirst(control, mode) ==
    IF BitAnd(control, cTeleoperated) # 0 THEN "DS_CONTROL_TELEOPERATED"
    ELSE IF BitAnd(control, cTest) # 0 THEN "DS_CONTROL_TEST"
    ELSE IF BitAnd(control, cAutonomous) # 0 THEN "DS_CONTROL_AUTONOMOUS"
    ELSE mode

\* The mode read_fms_packet leaves in the store: control & cTeleoperated is
\* control & 0x00, never set.
FmsControlMode(control, mode) ==
    IF BitAnd(control, cTeleoperated) # 0 THEN "DS_CONTROL_TELEOPERATED"
    ELSE IF BitAnd(control, cAutonomous) # 0 THEN "DS_CONTROL_AUTONOMOUS"
    ELSE IF BitAnd(control, cTest) # 0 THEN "DS_CONTROL_TEST"
    ELSE mode

read_fms_packet(data) ==
    /\ alive
    /\ UNCHANGED <<descriptor, building>>
    /\ IF data.null
       THEN /\ ret' = Parsed("read_fms_packet", data, 0)
            /\ cfg' = cfg
       ELSE \E control \in ByteAt(data, 3), station \in ByteAt(data, 5) :
              /\ cfg' = CFG_SetPosition(
                          CFG_SetAlliance(
                            CFG_SetControlMode(
                              CFG_SetRobotEnabled(cfg, BitAnd(control, cEnabled)),
                              FmsControlMode(control, cfg.control_mode)),
                            get_alliance(station)),
                          get_position(station))
              /\ ret' = Parsed("read_fms_packet", data, 1)
    /\ UNCHANGED <<joysticks, statics, alive, history>>

read_radio_packet(data) ==
    /\ alive
    /\ UNCHANGED <<descriptor, building>>
    /\ ret' = Parsed("read_radio_packet", data, 0)
    /\ UNCHANGED <<program, history>>

\* A mutant of read_extended: the disk tag writes the enabled flag.
read_extended_disk_as_enabled(c, tag, can, cpu, ram, disk) ==
    IF tag = cRTagCANInfo THEN CFG_SetCANUtilization(c, can)
    ELSE IF tag = cRTagCPUInfo THEN CFG_SetRobotCPUUsage(c, cpu)
    ELSE IF tag = cRTagRAMInfo THEN CFG_SetRobotRAMUsage(c, ram)
    ELSE IF tag = cRTagDiskInfo THEN CFG_SetRobotEnabled(c, disk)
    ELSE c

\* A mutant of read_extended: the RAM tag writes the CPU usage.
read_extended_ram_as_cpu(c, tag, can, cpu, ram, disk) ==
    IF tag = cRTagCANInfo THEN CFG_SetCANUtilization(c, can)
    ELSE IF tag = cRTagCPUInfo THEN CFG_SetRobotCPUUsage(c, cpu)
    ELSE IF tag = cRTagRAMInfo THEN CFG_SetRobotCPUUsage(c, ram)
    ELSE IF tag = cRTagDiskInfo THEN CFG_SetRobotDiskUsage(c, disk)
    ELSE c

\* read_extended (data, offset): one tag, one field.
read_extended(c, tag, can, cpu, ram, disk) ==
    IF tag = cRTagCANInfo THEN CFG_SetCANUtilization(c, can)
    ELSE IF tag = cRTagCPUInfo THEN CFG_SetRobotCPUUsage(c, cpu)
    ELSE IF tag = cRTagRAMInfo THEN CFG_SetRobotRAMUsage(c, ram)
    ELSE IF tag = cRTagDiskInfo THEN CFG_SetRobotDiskUsage(c, disk)
    ELSE c

read_robot_packet(data) ==
    /\ alive
    /\ UNCHANGED <<descriptor, building>>
    /\ IF data.null
       THEN /\ ret' = Parsed("read_robot_packet", data, 0)
            /\ UNCHANGED <<cfg, send_time_data>>
       ELSE \E control \in ByteAt(data, 3), status \in ByteAt(data, 4),
               request \in ByteAt(data, 7),
               upper \in ByteAt(data, 5), lower \in ByteAt(data, 6) :
              LET header == CFG_SetRobotVoltage(
                              CFG_SetEmergencyStopped(
                                CFG_SetRobotCode(cfg, BitAnd(status, cRobotHasCode)),
                                BitAnd(control, cEmergencyStop)),
                              decode_voltage(upper, lower))
              IN  /\ send_time_data' = (IF request = cRequestTime THEN 1 ELSE 0)
                  /\ IF DS_SizeOf(data) > 9
                     THEN \E tag \in ByteAt(data, 8 + 1),
                             can \in ByteAt(data, 8 + 10),
                             cpu \in ByteAt(data, 8 + 3),
                             ram \in ByteAt(data, 8 + 4) :
                            cfg' = read_extended(header, tag, can, cpu, ram, ram)
                     ELSE cfg' = header
                  /\ ret' = Parsed("read_robot_packet", data, 1)
    /\ UNCHANGED <<joysticks, sent_fms_packets, sent_robot_packets, reboot,
                   restart_code, alive, history>>

(* ---------------------- reset hooks and requests ----------------------- *)
reset_fms ==
    /\ alive
    /\ UNCHANGED <<descriptor, building>>
    /\ ret' = Returned("reset_fms", NoPacket, NoPacket, 0)
    /\ UNCHANGED <<program, history>>

reset_radio ==
    /\ alive
    /\ UNCHANGED <<descriptor, building>>
    /\ ret' = Returned("reset_radio", NoPacket, NoPacket, 0)
    /\ UNCHANGED <<program, history>>

\* A mutant of ResetRobotStatics: send_time_data is left as it is.
ResetRobotStaticsKeepTime == [reboot |-> 0, restart_code |-> 0,
                              send_time_data |-> send_time_data]

\* The three assignments of reset_robot.
ResetRobotStatics == [reboot |-> 0, restart_code |-> 0, send_time_data |-> 0]

\* A mutant of reset_robot: the robot packet counter is cleared as well.
reset_robot_clearing_counter ==
    /\ alive
    /\ UNCHANGED <<descriptor, building>>
    /\ reboot' = ResetRobotStatics.reboot
    /\ restart_code' = ResetRobotStatics.restart_code
    /\ send_time_data' = ResetRobotStatics.send_time_data
    /\ ret' = [Returned("reset_robot", NoPacket, NoPacket, 0) EXCEPT
                  !.latched = <<reboot, restart_code, send_time_data>>]
    /\ since_reset' = TRUE
    /\ sent_robot_packets' = 0
    /\ UNCHANGED <<cfg, joysticks, sent_fms_packets,
                   alive, prev_fms_index, prev_robot_index, time_built>>

reset_robot ==
    /\ alive
    /\ UNCHANGED <<descriptor, building>>
    /\ reboot' = ResetRobotStatics.reboot
    /\ restart_code' = ResetRobotStatics.restart_code
    /\ send_time_data' = ResetRobotStatics.send_time_data
    /\ ret' = [Returned("reset_robot", NoPacket, NoPacket, 0) EXCEPT
                  !.latched = <<reboot, restart_code, send_time_data>>]
    /\ since_reset' = TRUE
    /\ UNCHANGED <<cfg, joysticks, sent_fms_packets, sent_robot_packets,
                   alive, prev_fms_index, prev_robot_index, time_built>>

reboot_robot ==
    /\ alive
    /\ UNCHANGED <<descriptor, building>>
    /\ reboot' = 1
    /\ ret' = Returned("reboot_robot", NoPacket, NoPacket, 0)
    /\ since_reset' = FALSE
    /\ UNCHANGED <<cfg, joysticks, send_time_data, sent_fms_packets,
                   sent_robot_packets, restart_code, alive, prev_fms_index,
                   prev_robot_index, time_built>>

restart_robot_code ==
    /\ alive
    /\ UNCHANGED <<descriptor, building>>
    /\ restart_code' = 1
    /\ ret' = Returned("restart_robot_code", NoPacket, NoPacket, 0)
    /\ since_reset' = FALSE
    /\ UNCHANGED <<cfg, joysticks, send_time_data, sent_fms_packets,
                   sent_robot_packets, reboot, alive, prev_fms_index,
                   prev_robot_index, time_built>>

\* The host's socket layer reports the robot link up or down.
CFG_SetRobotCommunications(up) ==
    /\ alive
    /\ UNCHANGED <<descriptor, building>>
    /\ cfg.robot_communications # up
    /\ cfg' = [cfg EXCEPT !.robot_communications = up]
    /\ ret' = Returned("CFG_SetRobotCommunications", NoPacket, NoPacket, 0)
    /\ UNCHANGED <<joysticks, statics, alive, history>>

(* ---------------------------- the descriptor --------------------------- *)
\* A field of a malloc'ed block, or of a DS_Socket on the stack, that no
\* statement has written.
Unwritten == 0 - 1

\* A DS_Socket no statement has written.
UnwrittenSocket ==
    [disabled |-> Unwritten, input_port |-> Unwritten,
     output_port |-> Unwritten]

\* The block as malloc returns it.
UnwrittenBlock ==
    [fms_interval |-> Unwritten, radio_interval |-> Unwritten,
     robot_interval |-> Unwritten, max_joysticks |-> Unwritten,
     max_axis_count |-> Unwritten, max_hat_count |-> Unwritten,
     max_button_count |-> Unwritten, fms_socket |-> UnwrittenSocket,
     radio_socket |-> UnwrittenSocket, robot_socket |-> UnwrittenSocket,
     netconsole_socket |-> UnwrittenSocket]

\* The assignments up to the joystick properties.
SetProperties(block) ==
    [block EXCEPT
        !.fms_interval = 500, !.radio_interval = 0, !.robot_interval = 20,
        !.max_joysticks = max_joysticks, !.max_axis_count = max_axis_count,
        !.max_hat_count = max_hat_count,
        !.max_button_count = max_button_count]

\* The four DS_Socket objects and their assignment to the block.
SetSockets(block) ==
    [block EXCEPT
        !.fms_socket =
            [disabled |-> 0, input_port |-> 1120, output_port |-> 1160],
        !.radio_socket =
            [disabled |-> 1, input_port |-> Unwritten,
             output_port |-> Unwritten],
        !.robot_socket =
            [disabled |-> 0, input_port |-> 1150, output_port |-> 1110],
        !.netconsole_socket =
            [disabled |-> 0, input_port |-> 6666, output_port |-> 6668]]

Threads == 1..MaxThreads

\* No call of DS_GetProtocolFRC_2015 yet.
NoCall == [ptr |-> 0, fields |-> UnwrittenBlock]

\* A thread outside the function.
Idle == [at |-> "idle", loaded |-> 0]

DescriptorFresh ==
    /\ protocol = 0
    /\ blocks = <<>>
    /\ threads = [t \in Threads |-> Idle]
    /\ got = [t \in Threads |-> NoCall]

\* The values a read of the static pointer may give a thread: the pointer
\* as it is now, or as the thread last loaded or stored it.  No lock and no
\* atomic orders the threads' accesses.
Pointers(t) == {protocol} \cup ({threads[t].loaded} \ {0})

\* A thread enters DS_GetProtocolFRC_2015.
Call(t) ==
    /\ threads[t].at = "idle"
    /\ threads' = [threads EXCEPT ![t] = [at |-> "test", loaded |-> 0]]
    /\ UNCHANGED <<protocol, blocks, got>>

\* if (!protocol)
TestProtocol(t) ==
    /\ threads[t].at = "test"
    /\ threads' = [threads EXCEPT ![t] =
                      [at |-> IF protocol = 0 THEN "malloc" ELSE "return",
                       loaded |-> protocol]]
    /\ UNCHANGED <<protocol, blocks, got>>

\* protocol = (DS_Protocol*) malloc (sizeof (DS_Protocol));
MallocProtocol(t) ==
    /\ threads[t].at = "malloc"
    /\ blocks' = Append(blocks, UnwrittenBlock)
    /\ protocol' = Len(blocks) + 1
    /\ threads' = [threads EXCEPT ![t] =
                      [at |-> "properties", loaded |-> Len(blocks) + 1]]
    /\ UNCHANGED got

\* protocol->... = ..., up to the joystick properties.
SetProtocolProperties(t) ==
    /\ threads[t].at = "properties"
    /\ \E b \in Pointers(t) :
          blocks' = [blocks EXCEPT ![b] = SetProperties(@)]
    /\ threads' = [threads EXCEPT ![t].at = "sockets"]
    /\ UNCHANGED <<protocol, got>>

\* protocol->..._socket = ..._socket.
SetProtocolSockets(t) ==
    /\ threads[t].at = "sockets"
    /\ \E b \in Pointers(t) :
          blocks' = [blocks EXCEPT ![b] = SetSockets(@)]
    /\ threads' = [threads EXCEPT ![t].at = "return"]
    /\ UNCHANGED <<protocol, got>>

\* return protocol; the caller then reads the fields.
ReturnProtocol(t) ==
    /\ threads[t].at = "return"
    /\ \E b \in Pointers(t) :
          got' = [got EXCEPT ![t] = [ptr |-> b, fields |-> blocks[b]]]
    /\ threads' = [threads EXCEPT ![t] = Idle]
    /\ UNCHANGED <<protocol, blocks>>

DS_GetProtocolFRC_2015(t) ==
    /\ alive
    /\ \/ Call(t)
       \/ TestProtocol(t)
       \/ MallocProtocol(t)
       \/ SetProtocolProperties(t)
       \/ SetProtocolSockets(t)
       \/ ReturnProtocol(t)
    /\ UNCHANGED <<program, ret, history, building>>

(* ------------- the builders, statement by statement -------------------- *)
\* create_fms_packet up to data [4] = (CFG_GetTeamNumber() & 0xff00) >> 8:
\* the first of its two reads of the team number.
FmsReadTeamHigh ==
    /\ alive
    /\ building.at = "idle"
    /\ building' = [at |-> "team_low",
                    high |-> HighByte(CFG_GetTeamNumber),
                    teams |-> {CFG_GetTeamNumber},
                    alliances |-> {}, positions |-> {}]
    /\ UNCHANGED <<program, ret, history, descriptor>>

\* data [5] = (CFG_GetTeamNumber() & 0xff), the second read, and the rest of
\* create_fms_packet.
FmsReadTeamLow ==
    /\ building.at = "team_low"
    /\ ReturnFmsPacket([FmsPacketBytes EXCEPT ![5] = building.high])
    /\ building' = NotBuilding

\* The station codes of position k: red and blue.
StationCodes(k) ==
    CASE k = 1 -> [red |-> cRed1, blue |-> cBlue1, position |-> "DS_POSITION_1"]
      [] k = 2 -> [red |-> cRed2, blue |-> cBlue2, position |-> "DS_POSITION_2"]
      [] k = 3 -> [red |-> cRed3, blue |-> cBlue3, position |-> "DS_POSITION_3"]

\* Where get_station_code is before its k-th read of the position.
BeforePosition(k) ==
    CASE k = 1 -> "idle" [] k = 2 -> "position_2" [] k = 3 -> "position_3"

\* Where it is before the read of the alliance that follows.
BeforeAlliance(k) ==
    CASE k = 1 -> "alliance_1" [] k = 2 -> "alliance_2" [] k = 3 -> "alliance_3"

\* create_robot_packet up to get_station_code, and in it
\* if (CFG_GetPosition() == DS_POSITION_k): the k-th read of the position.
\* After the third test has failed: return cRed1, and the rest of
\* create_robot_packet.
TestPosition(k) ==
    /\ alive
    /\ building.at = BeforePosition(k)
    /\ LET held == IF k = 1
                   THEN [building EXCEPT !.alliances = {CFG_GetAlliance},
                                         !.positions = {CFG_GetPosition}]
                   ELSE building
       IN  IF CFG_GetPosition = StationCodes(k).position
           THEN /\ building' = [held EXCEPT !.at = BeforeAlliance(k)]
                /\ UNCHANGED <<program, ret, history, descriptor>>
           ELSE IF k < 3
           THEN /\ building' = [held EXCEPT !.at = BeforePosition(k + 1)]
                /\ UNCHANGED <<program, ret, history, descriptor>>
           ELSE /\ ReturnRobotPacket([RobotHeaderBytes EXCEPT ![6] = cRed1])
                /\ building' = NotBuilding

\* if (CFG_GetAlliance() == DS_ALLIANCE_RED) return cRedk; else return
\* cBluek; and the rest of create_robot_packet.
ReadAlliance(k) ==
    /\ building.at = BeforeAlliance(k)
    /\ ReturnRobotPacket(
          [RobotHeaderBytes EXCEPT ![6] =
              IF CFG_GetAlliance = "DS_ALLIANCE_RED"
              THEN StationCodes(k).red ELSE StationCodes(k).blue])
    /\ building' = NotBuilding

\* A setter of the store, called from another thread between two statements
\* of a builder.  The values the store holds while a builder runs are kept
\* as history.
SetsBetween(c) ==
    /\ alive
    /\ c # cfg
    /\ cfg' = c
    /\ building' =
          IF building.at = "idle" THEN building
          ELSE IF building.at = "team_low"
          THEN [building EXCEPT !.teams = @ \cup {c.team_number}]
          ELSE [building EXCEPT !.alliances = @ \cup {c.alliance},
                                !.positions = @ \cup {c.position}]
    /\ UNCHANGED <<joysticks, statics, alive, ret, history, descriptor>>

\* The host sets the team number.
HostSetsTeamNumber(team) == SetsBetween(CFG_SetTeamNumber(cfg, team))

\* The receive thread, in read_fms_packet: CFG_SetAlliance (...), and then
\* CFG_SetPosition (...).
ReceiverSetsAlliance(a) == SetsBetween(CFG_SetAlliance(cfg, a))
ReceiverSetsPosition(p) == SetsBetween(CFG_SetPosition(cfg, p))

(* --------------------------- specifications --------------------------- *)
\* The store as the host leaves it before any packet: teleoperated,
\* disabled, red 1, no link, nothing heard from the robot.
FreshConfig ==
    [control_mode |-> "DS_CONTROL_TELEOPERATED", robot_enabled |-> FALSE,
     emergency_stopped |-> FALSE, fms_communications |-> FALSE,
     radio_communications |-> FALSE, robot_communications |-> FALSE,
     alliance |-> "DS_ALLIANCE_RED", position |-> "DS_POSITION_1",
     team_number |-> 4499, robot_voltage |-> 0, robot_code |-> FALSE,
     can_utilization |-> 0, cpu_usage |-> 0, ram_usage |-> 0,
     disk_usage |-> 0]

\* Joysticks the host may have attached.
Gamepad == [axes |-> <<64, 0>>, buttons |-> <<TRUE, FALSE, TRUE>>,
            hats |-> <<>>]
Stick == [axes |-> <<127>>, buttons |-> <<FALSE>>, hats |-> <<4660>>]
JoystickSetups == { <<>>, <<Gamepad, Stick>> }

FreshReturn == Returned("init", NoPacket, NoPacket, 0)

\* The module's statics as the C initialisers leave them.
FreshStatics ==
    /\ send_time_data = 0
    /\ sent_fms_packets = 0
    /\ sent_robot_packets = 0
    /\ reboot = 0
    /\ restart_code = 0

FreshHistory ==
    /\ prev_fms_index = NoIndex
    /\ prev_robot_index = NoIndex
    /\ since_reset = FALSE
    /\ time_built = FALSE

Init ==
    /\ cfg = FreshConfig
    /\ joysticks \in JoystickSetups
    /\ FreshStatics
    /\ alive = TRUE
    /\ ret = FreshReturn
    /\ FreshHistory
    /\ DescriptorFresh
    /\ building = NotBuilding

\* Datagrams the FMS and the robot send in the life-cycle specification.
FmsInbound == { Datagram(<<0, 0, 0, 6, 0, 4>>) }
RobotInbound ==
    { Datagram(<<0, 0, 0, 128, 32, 12, 128, 1>>),
      Datagram(<<0, 0, 0, 0, 0, 0, 0, 0>>) }

Next ==
    \/ (sent_fms_packets < MaxFmsPackets /\ create_fms_packet)
    \/ create_radio_packet
    \/ (sent_robot_packets < MaxPackets /\ create_robot_packet)
    \/ \E d \in FmsInbound : read_fms_packet(d)
    \/ \E d \in RobotInbound : read_radio_packet(d)
    \/ \E d \in RobotInbound : read_robot_packet(d)
    \/ reset_fms
    \/ reset_radio
    \/ reset_robot
    \/ reboot_robot
    \/ restart_robot_code
    \/ \E up \in BOOLEAN : CFG_SetRobotCommunications(up)

Spec == Init /\ [][Next]_vars

(* ------------------------- steps of the builders ----------------------- *)
\* A step in which create_fms_packet returned a packet.
FmsBuilt == ret'.op = "create_fms_packet"
            /\ sent_fms_packets' = sent_fms_packets + 1

\* A step in which create_robot_packet returned a packet.
RobotBuilt == ret'.op = "create_robot_packet"
              /\ sent_robot_packets' = sent_robot_packets + 1

\* The index that follows the index prev of the packet before.
IndexAfter(prev) == IF prev = NoIndex THEN 0 ELSE (prev + 1) % 65536

(* -------------------------------- C1 ----------------------------------- *)
\* C1: for each peer and any interleaving of the calls, the packets the
\* peer's builder returns carry in bytes [0..2) a big-endian index that is 0
\* for the first packet and the previous packet's index plus 1 modulo 2^16
\* for every later one; every FMS packet is 8 bytes long.
C1_PacketIndexSequence ==
    [][ /\ FmsBuilt =>
             /\ Len(ret'.packet) = 8
             /\ PacketIndex(ret'.packet) = IndexAfter(prev_fms_index)
        /\ RobotBuilt =>
             PacketIndex(ret'.packet) = IndexAfter(prev_robot_index) ]_vars

\* The FMS half of C1, which create_fms_packet does keep.
FmsPacketIndexSequence ==
    [][ FmsBuilt =>
          /\ Len(ret'.packet) = 8
          /\ PacketIndex(ret'.packet) = IndexAfter(prev_fms_index) ]_vars

(* -------------------------------- C2 ----------------------------------- *)
\* C2: after reset_robot, with neither reboot_robot nor restart_robot_code
\* called before it, the next robot packet has byte [4] = 0x80 when robot
\* comms is up and 0x00 when it is down, never 0x08 or 0x04.
C2_RequestAfterReset ==
    [][ (since_reset /\ RobotBuilt) =>
          ret'.packet[5] = (IF CFG_GetRobotCommunications
                            THEN 128 ELSE 0) ]_vars

\* What the builder stores in byte [4] in that case.
StoredRequestAfterReset ==
    [][ (since_reset /\ RobotBuilt) =>
          ret'.header[5] = (IF CFG_GetRobotCommunications
                            THEN 128 ELSE 0) ]_vars

(* -------------------------------- C3 ----------------------------------- *)
\* C3: in the state right after any call of reset_robot the three latches
\* reboot, restart_code and send_time_data are all clear, whatever they were
\* before; reset_fms and reset_radio change no state at all.
C3_ResetHooks ==
    [][ /\ ret'.op = "reset_robot" =>
             (reboot' = 0 /\ restart_code' = 0 /\ send_time_data' = 0)
        /\ ret'.op \in {"reset_fms", "reset_radio"} =>
             UNCHANGED program ]_vars

\* reset_robot has run with all three latches set, and cleared them.
C3_Witness ==
    /\ ret.op = "reset_robot"
    /\ ret.latched = <<1, 1, 1>>
    /\ reboot = 0 /\ restart_code = 0 /\ send_time_data = 0

(* -------------------------------- C5 ----------------------------------- *)
\* C5: from a fresh protocol, with send_time_data clear at every build,
\* create_robot_packet returns the header alone on each of its first 6 calls
\* (index 0..5) and the header followed by the joystick payload on every
\* later call.
C5_HeaderOnlyThenJoysticks ==
    [][ (RobotBuilt /\ ~time_built /\ send_time_data = 0) =>
          ret'.packet = (IF sent_robot_packets <= 5
                         THEN RobotHeaderBytes \o <<0, 0>>
                         ELSE add_joystick_data(RobotHeaderBytes \o <<0, 0>>,
                                                6)) ]_vars

(* ------------- the codes, over every setting of the store ------------- *)
\* Team number and voltage as the host may have set them: 0 and 0 V,
\* 4499 and 12.5 V.
HostSettings == { <<0, 0>>, <<4499, 12 * VoltDen + VoltDen \div 2>> }

\* Every value of the control mode and of the flags, alliance and position,
\* with the latches in every combination, before the first robot packet or
\* after seven of them.
InitCodes ==
    /\ \E mode \in ControlModes, en \in BOOLEAN, es \in BOOLEAN,
          fms \in BOOLEAN, radio \in BOOLEAN, robot \in BOOLEAN,
          a \in Alliances, p \in Positions, host \in HostSettings :
          cfg = [FreshConfig EXCEPT
                   !.control_mode = mode, !.robot_enabled = en,
                   !.emergency_stopped = es, !.fms_communications = fms,
                   !.radio_communications = radio,
                   !.robot_communications = robot,
                   !.alliance = a, !.position = p,
                   !.team_number = host[1], !.robot_voltage = host[2]]
    /\ joysticks \in JoystickSetups
    /\ send_time_data = 0
    /\ sent_fms_packets = 0
    /\ sent_robot_packets \in {0, 7}
    /\ reboot \in {0, 1}
    /\ restart_code \in {0, 1}
    /\ alive = TRUE
    /\ ret = FreshReturn
    /\ prev_fms_index = NoIndex
    /\ prev_robot_index =
           (IF sent_robot_packets = 0 THEN NoIndex ELSE sent_robot_packets - 1)
    /\ since_reset = FALSE
    /\ time_built = FALSE
    /\ DescriptorFresh
    /\ building = NotBuilding

\* FMS datagrams with every station byte 0..7 and 255.
StationDatagrams ==
    { Datagram(<<0, 0, 0, 0, 0, station>>) : station \in (0..7) \cup {255} }

\* At most one FMS datagram, then one packet of either builder.
NextCodes ==
    \/ (ret.op = "init" /\ \E d \in StationDatagrams : read_fms_packet(d))
    \/ (ret.op \in {"init", "read_fms_packet"} /\ create_fms_packet)
    \/ (ret.op \in {"init", "read_fms_packet"} /\ create_robot_packet)

SpecCodes == InitCodes /\ [][NextCodes]_vars

(* ------------------- the voltage, over a grid of 1/256 ----------------- *)
\* Integer parts of the voltages drawn; every fraction k/256 goes with each.
VoltageWholes == {0, 1, 12, 13, 255}

InitVoltage ==
    /\ \E whole \in VoltageWholes, k \in 0..255 :
          cfg = [FreshConfig EXCEPT
                   !.robot_voltage = whole * VoltDen + k * 255]
    /\ joysticks = <<>>
    /\ FreshStatics
    /\ alive = TRUE
    /\ ret = FreshReturn
    /\ FreshHistory
    /\ DescriptorFresh
    /\ building = NotBuilding

NextVoltage == ret.op = "init" /\ create_fms_packet

SpecVoltage == InitVoltage /\ [][NextVoltage]_vars

(* ------------- the parsers, over datagrams of every length ------------ *)
\* What the robot may have reported before: nothing, or code, e-stop,
\* 12.5 V and telemetry.
RobotReports ==
    { [robot_code |-> FALSE, emergency_stopped |-> FALSE, robot_voltage |-> 0,
       can_utilization |-> 0, cpu_usage |-> 0, ram_usage |-> 0,
       disk_usage |-> 0],
      [robot_code |-> TRUE, emergency_stopped |-> TRUE,
       robot_voltage |-> 12 * VoltDen + VoltDen \div 2,
       can_utilization |-> 1, cpu_usage |-> 2, ram_usage |-> 3,
       disk_usage |-> 4] }

InitParsers ==
    /\ \E mode \in ControlModes, en \in BOOLEAN, a \in Alliances,
          p \in {"DS_POSITION_1", "DS_POSITION_3"}, r \in RobotReports :
          cfg = [FreshConfig EXCEPT
                   !.control_mode = mode, !.robot_enabled = en,
                   !.alliance = a, !.position = p,
                   !.robot_code = r.robot_code,
                   !.emergency_stopped = r.emergency_stopped,
                   !.robot_voltage = r.robot_voltage,
                   !.can_utilization = r.can_utilization,
                   !.cpu_usage = r.cpu_usage, !.ram_usage = r.ram_usage,
                   !.disk_usage = r.disk_usage]
    /\ joysticks = <<>>
    /\ send_time_data \in {0, 1}
    /\ sent_fms_packets = 0
    /\ sent_robot_packets = 0
    /\ reboot = 0
    /\ restart_code = 0
    /\ alive = TRUE
    /\ ret = FreshReturn
    /\ FreshHistory
    /\ DescriptorFresh
    /\ building = NotBuilding

\* FMS datagrams: none, too short, and six bytes with every mix of the
\* enable and mode bits and a station byte.
FmsDatagrams ==
    { NullData, Datagram(<<>>), Datagram(<<0, 0, 0, 6>>),
      Datagram(<<0, 0, 0, 6, 0>>), Datagram(<<0, 0, 0, 1, 0, 2, 0, 0>>) }
    \cup { Datagram(<<0, 0, 0, control, 0, station>>) :
              control \in 0..7, station \in {0, 4, 5} }

\* The first eight bytes of a robot datagram.
RobotHeads ==
    { <<0, 0, 0, control, status, v[1], v[2], request>> :
        control \in {0, 128}, status \in {0, 32},
        v \in {<<0, 0>>, <<12, 128>>}, request \in {0, 1, 2} }

\* Extended blocks, as they follow the first eight bytes: the CPU block of
\* the documentation, RAM, disk, CAN, an unknown tag, and blocks cut short
\* before the byte their tag refers to.
ExtendedBlocks ==
    { <<3, 5, 0, 87>>, <<4, 6, 0, 0, 99>>, <<4, 4, 0, 0, 77>>,
      <<10, 14, 0, 0, 0, 0, 0, 0, 0, 0, 55>>, <<3, 7, 9, 9>>,
      <<1, 6>>, <<1, 14, 0>> }

\* Robot datagrams: none, too short, eight bytes, nine bytes, extended.
RobotDatagrams ==
    { NullData, Datagram(<<>>), Datagram(<<0, 0, 0, 128, 32>>),
      Datagram(<<0, 0, 0, 128, 32, 12, 128>>),
      Datagram(<<0, 0, 0, 0, 32, 12, 0, 0, 5>>) }
    \cup { Datagram(h) : h \in RobotHeads }
    \cup { Datagram(<<0, 0, 0, 0, 32, 12, 0, 0>> \o b) : b \in ExtendedBlocks }

\* One FMS datagram, or one robot datagram and then a robot packet.
NextParsers ==
    \/ (ret.op = "init" /\ \E d \in FmsDatagrams : read_fms_packet(d))
    \/ (ret.op = "init" /\ \E d \in RobotDatagrams : read_robot_packet(d))
    \/ (ret.op = "read_robot_packet" /\ create_robot_packet)

SpecParsers == InitParsers /\ [][NextParsers]_vars

(* ---------------- every call, over every prior store ------------------ *)
\* Any one call, after reboot_robot and restart_robot_code or not.
BeforeTheCall == ret.op \in {"init", "reboot_robot", "restart_robot_code"}

NextFrame ==
    \/ (BeforeTheCall /\ create_fms_packet)
    \/ (BeforeTheCall /\ create_radio_packet)
    \/ (BeforeTheCall /\ create_robot_packet)
    \/ (BeforeTheCall /\ \E d \in FmsDatagrams : read_fms_packet(d))
    \/ (BeforeTheCall /\ \E d \in RobotDatagrams : read_radio_packet(d))
    \/ (BeforeTheCall /\ \E d \in RobotDatagrams : read_robot_packet(d))
    \/ (BeforeTheCall /\ reset_fms)
    \/ (BeforeTheCall /\ reset_radio)
    \/ (BeforeTheCall /\ reset_robot)
    \/ (BeforeTheCall /\ reboot_robot)
    \/ (BeforeTheCall /\ restart_robot_code)

SpecFrame == InitParsers /\ [][NextFrame]_vars

(* -------------- builders and setters on different threads ------------- *)
\* Team numbers the host may set: 0x00ff, 0x0100 and 4499.
TeamNumbers == {255, 256, 4499}

InitInterleaved ==
    /\ \E team \in TeamNumbers, a \in Alliances, p \in Positions :
          cfg = [FreshConfig EXCEPT !.team_number = team, !.alliance = a,
                                    !.position = p]
    /\ joysticks = <<>>
    /\ FreshStatics
    /\ alive = TRUE
    /\ ret = FreshReturn
    /\ FreshHistory
    /\ DescriptorFresh
    /\ building = NotBuilding

NextInterleaved ==
    \/ (sent_fms_packets < MaxBuilds /\ FmsReadTeamHigh)
    \/ FmsReadTeamLow
    \/ \E k \in 1..3 :
          (k = 1 => sent_robot_packets < MaxBuilds) /\ TestPosition(k)
    \/ \E k \in 1..3 : ReadAlliance(k)
    \/ \E team \in TeamNumbers : HostSetsTeamNumber(team)
    \/ \E a \in Alliances : ReceiverSetsAlliance(a)
    \/ \E p \in Positions : ReceiverSetsPosition(p)

SpecInterleaved == InitInterleaved /\ [][NextInterleaved]_vars

(* ------------------- the joystick block, every shape ------------------- *)
\* A joystick of every number of axes and hats the descriptor allows.
JoystickShapes ==
    { [axes |-> [k \in 1..A |-> 64], buttons |-> <<TRUE, FALSE>>,
       hats |-> [k \in 1..H |-> 4660]] :
        A \in 0..max_axis_count, H \in 0..max_hat_count }

\* One to MaxSticks joysticks attached, six robot packets sent.
InitJoysticks ==
    /\ cfg = FreshConfig
    /\ joysticks \in UNION { [1..n -> JoystickShapes] : n \in 1..MaxSticks }
    /\ send_time_data = 0
    /\ sent_fms_packets = 0
    /\ sent_robot_packets = 6
    /\ reboot = 0
    /\ restart_code = 0
    /\ alive = TRUE
    /\ ret = FreshReturn
    /\ prev_fms_index = NoIndex
    /\ prev_robot_index = 5
    /\ since_reset = FALSE
    /\ time_built = FALSE
    /\ DescriptorFresh
    /\ building = NotBuilding

NextJoysticks == ret.op = "init" /\ create_robot_packet

SpecJoysticks == InitJoysticks /\ [][NextJoysticks]_vars

(* ------------------ the buttons, every combination -------------------- *)
\* One joystick without axes or hats, with 0 to max_button_count buttons in
\* every combination of pressed and released; six robot packets sent.
InitButtons ==
    /\ cfg = FreshConfig
    /\ \E B \in 0..max_button_count : \E pressed \in [1..B -> BOOLEAN] :
          joysticks = << [axes |-> <<>>, buttons |-> pressed, hats |-> <<>>] >>
    /\ send_time_data = 0
    /\ sent_fms_packets = 0
    /\ sent_robot_packets = 6
    /\ reboot = 0
    /\ restart_code = 0
    /\ alive = TRUE
    /\ ret = FreshReturn
    /\ prev_fms_index = NoIndex
    /\ prev_robot_index = 5
    /\ since_reset = FALSE
    /\ time_built = FALSE
    /\ DescriptorFresh
    /\ building = NotBuilding

NextButtons == ret.op = "init" /\ create_robot_packet

SpecButtons == InitButtons /\ [][NextButtons]_vars

(* ------------- the descriptor, called from several threads ------------- *)
NextProtocol == \E t \in Threads : DS_GetProtocolFRC_2015(t)

SpecProtocol == Init /\ [][NextProtocol]_vars

(* -------------------------------- C4 ----------------------------------- *)
\* The request code the documentation tabulates, from the flag and latches.
RequestTable ==
    IF ~cfg.robot_communications THEN 0
    ELSE IF reboot = 1 THEN 8
    ELSE IF restart_code = 1 THEN 4
    ELSE 128

\* C4: for every combination of the robot-comms flag and the reboot and
\* restart-code latches, byte [4] of the robot packet is 0x00 with comms
\* down, 0x08 with comms up and reboot set, 0x04 with comms up, reboot clear
\* and restart-code set, 0x80 with comms up and both latches clear.
C4_RequestCodeTable ==
    [][ RobotBuilt => ret'.packet[5] = RequestTable ]_vars

\* What the builder stores in byte [4], for every combination.
StoredRequestCodeTable ==
    [][ RobotBuilt => ret'.header[5] = RequestTable ]_vars

(* -------------------------------- C6 ----------------------------------- *)
\* How many of the two mode bits 0x01 and 0x02 a control code has set.
ModeBitCount(code) == (code % 2) + ((code \div 2) % 2)

\* The mode bits the documentation gives each control mode.
ModeTable ==
    CASE cfg.control_mode = "DS_CONTROL_TEST" -> 1
      [] cfg.control_mode = "DS_CONTROL_AUTONOMOUS" -> 2
      [] cfg.control_mode = "DS_CONTROL_TELEOPERATED" -> 0

FmsControlTable ==
    ModeTable
    + (IF cfg.robot_enabled THEN 4 ELSE 0)
    + (IF cfg.emergency_stopped THEN 128 ELSE 0)
    + (IF cfg.radio_communications THEN 16 ELSE 0)
    + (IF cfg.robot_communications THEN 8 + 32 ELSE 0)

RobotControlTable ==
    ModeTable
    + (IF cfg.fms_communications THEN 8 ELSE 0)
    + (IF cfg.emergency_stopped THEN 128 ELSE 0)
    + (IF cfg.robot_enabled THEN 4 ELSE 0)

\* C8: for every combination of control mode and flags, byte [3] of the
\* robot packet is the OR of 0x01 if Test, 0x02 if Autonomous, 0x08 if FMS
\* comms, 0x80 if e-stopped, 0x04 if enabled, whatever the radio-comms and
\* robot-comms flags are.
C8_RobotControlCode ==
    [][ RobotBuilt => ret'.packet[4] = RobotControlTable ]_vars

\* What the builder stores in byte [3], for every combination.
StoredRobotControlCode ==
    [][ RobotBuilt => ret'.header[4] = RobotControlTable ]_vars

(* -------------------------------- C9 ----------------------------------- *)
\* The station byte the documentation tabulates.
StationTable ==
    (IF cfg.alliance = "DS_ALLIANCE_RED" THEN 0 ELSE 3)
    + (CASE cfg.position = "DS_POSITION_1" -> 0
         [] cfg.position = "DS_POSITION_2" -> 1
         [] cfg.position = "DS_POSITION_3" -> 2)

\* C9: every robot packet built has byte [2] = 0x01 and byte [5] in 0..5,
\* the station code of the configured alliance and position, also when
\* these were last written from an FMS datagram with any station byte.
C9_TagAndStation ==
    [][ RobotBuilt =>
          /\ ret'.packet[3] = 1
          /\ ret'.packet[6] \in 0..5
          /\ ret'.packet[6] = StationTable ]_vars

\* What the builder stores in bytes [2] and [5].
StoredTagAndStation ==
    [][ RobotBuilt =>
          /\ ret'.header[3] = 1
          /\ ret'.header[6] \in 0..5
          /\ ret'.header[6] = StationTable ]_vars

(* -------------------------------- C10 ---------------------------------- *)
Abs(x) == IF x < 0 THEN 0 - x ELSE x

\* C10: for every voltage v in [0, 256) on the grid of 1/256, decoding the
\* two bytes encode_voltage produces (bytes [6] and [7] of the FMS packet)
\* gives a value within 1/256 of v.
C10_VoltageRoundTrip ==
    [][ FmsBuilt =>
          Abs(decode_voltage(ret'.packet[7], ret'.packet[8])
              - cfg.robot_voltage) * 256 <= VoltDen ]_vars

(* -------------------------------- C11 ---------------------------------- *)
\* C11: for every configured voltage v in [0, 256) on the grid of 1/256,
\* create_fms_packet emits byte [6] = floor (v) and byte [7] =
\* floor ((v - floor (v)) * 256); 12.5 V is emitted as 0x0C 0x80.
C11_VoltageBytes ==
    [][ FmsBuilt =>
          LET whole == cfg.robot_voltage \div VoltDen
              fraction == cfg.robot_voltage - whole * VoltDen
          IN  /\ ret'.packet[7] = whole
              /\ ret'.packet[8] = (fraction * 256) \div VoltDen ]_vars

\* The integer byte alone, which encode_voltage does produce.
VoltageUpperByte ==
    [][ FmsBuilt =>
          ret'.packet[7] = cfg.robot_voltage \div VoltDen ]_vars

(* -------------------------------- C12 ---------------------------------- *)
\* A step in which read_fms_packet took a datagram that holds byte [5].
FmsRead == /\ ret'.op = "read_fms_packet"
           /\ Len(ret'.read) >= 6

\* C12: for all six (alliance, position) pairs, get_alliance and
\* get_position of the byte get_station_code produces give the pair back;
\* an FMS datagram that echoes that byte leaves alliance and position as
\* they were.
C12_StationRoundTrip ==
    [][ /\ get_alliance(get_station_code) = CFG_GetAlliance
        /\ get_position(get_station_code) = CFG_GetPosition
        /\ (FmsRead /\ ret'.read[6] = get_station_code) =>
              /\ cfg'.alliance = cfg.alliance
              /\ cfg'.position = cfg.position ]_vars

\* Blue 3 went out as station byte 5, came back in an FMS datagram, and the
\* store still says blue 3.
C12_Witness ==
    /\ ret.op = "read_fms_packet"
    /\ ret.code = 1
    /\ ret.before.alliance = "DS_ALLIANCE_BLUE"
    /\ ret.before.position = "DS_POSITION_3"
    /\ ret.read[6] = 5
    /\ cfg.alliance = "DS_ALLIANCE_BLUE"
    /\ cfg.position = "DS_POSITION_3"

(* -------------------------------- C13 ---------------------------------- *)
\* Alliance and position as the documentation decodes a station byte.
StationAlliance(byte) ==
    IF byte \in 3..5 THEN "DS_ALLIANCE_BLUE" ELSE "DS_ALLIANCE_RED"
StationPosition(byte) ==
    IF byte \in {1, 4} THEN "DS_POSITION_2"
    ELSE IF byte \in {2, 5} THEN "DS_POSITION_3"
    ELSE "DS_POSITION_1"

\* A step in which read_fms_packet accepted a datagram of six bytes or more.
FmsAccepted == FmsRead /\ ret'.code = 1

\* C13: after read_fms_packet accepts a packet, from any prior state,
\* enabled is true iff byte [3] has bit 0x04; the control mode is
\* Autonomous if byte [3] has bit 0x02, else Test if it has bit 0x01, else
\* Teleoperated, whatever the mode was before; alliance and position are
\* those of byte [5].
C13_FmsPacketApplied ==
    [][ FmsAccepted =>
          LET control == ret'.read[4]
              station == ret'.read[6]
          IN  /\ cfg'.robot_enabled = (BitAnd(control, 4) # 0)
              /\ cfg'.control_mode =
                    (IF BitAnd(control, 2) # 0 THEN "DS_CONTROL_AUTONOMOUS"
                     ELSE IF BitAnd(control, 1) # 0 THEN "DS_CONTROL_TEST"
                     ELSE "DS_CONTROL_TELEOPERATED")
              /\ cfg'.alliance = StationAlliance(station)
              /\ cfg'.position = StationPosition(station) ]_vars

\* What read_fms_packet does keep of it: everything but the mode when
\* neither mode bit is set, which then stays what it was.
FmsPacketAppliedKeepingMode ==
    [][ FmsAccepted =>
          LET control == ret'.read[4]
              station == ret'.read[6]
          IN  /\ cfg'.robot_enabled = (BitAnd(control, 4) # 0)
              /\ cfg'.control_mode =
                    (IF BitAnd(control, 2) # 0 THEN "DS_CONTROL_AUTONOMOUS"
                     ELSE IF BitAnd(control, 1) # 0 THEN "DS_CONTROL_TEST"
                     ELSE cfg.control_mode)
              /\ cfg'.alliance = StationAlliance(station)
              /\ cfg'.position = StationPosition(station) ]_vars

(* -------------------------------- C14 ---------------------------------- *)
\* A step in which read_robot_packet accepted a datagram of eight bytes or
\* more.
RobotAccepted == /\ ret'.op = "read_robot_packet"
                 /\ ret'.code = 1
                 /\ Len(ret'.read) >= 8

\* A robot packet that carries the date block after its header.
CarriesTimezone(packet) ==
    /\ Len(packet) >= 8
    /\ packet[7] = 11
    /\ packet[8] = 15

\* C14: after read_robot_packet accepts a packet, from any prior state,
\* robot-has-code is true iff byte [4] has bit 0x20, e-stopped iff byte [3]
\* has bit 0x80, the robot voltage is byte [5] + byte [6] / 256 and the
\* time-data latch is set iff byte [7] = 0x01; after a packet with byte [7]
\* other than 0x01 the next robot packet built carries no timezone payload.
C14_RobotPacketApplied ==
    [][ /\ RobotAccepted =>
             /\ cfg'.robot_code = (BitAnd(ret'.read[5], 32) # 0)
             /\ cfg'.emergency_stopped = (BitAnd(ret'.read[4], 128) # 0)
             /\ cfg'.robot_voltage * 256 =
                   (ret'.read[6] * 256 + ret'.read[7]) * VoltDen
             /\ (send_time_data' # 0) = (ret'.read[8] = 1)
        /\ (ret.op = "read_robot_packet" /\ ret.code = 1
             /\ Len(ret.read) >= 8 /\ ret.read[8] # 1 /\ RobotBuilt) =>
             ~CarriesTimezone(ret'.packet) ]_vars

\* The same without the voltage, which read_robot_packet does keep.
RobotPacketAppliedButVoltage ==
    [][ /\ RobotAccepted =>
             /\ cfg'.robot_code = (BitAnd(ret'.read[5], 32) # 0)
             /\ cfg'.emergency_stopped = (BitAnd(ret'.read[4], 128) # 0)
             /\ (send_time_data' # 0) = (ret'.read[8] = 1)
        /\ (ret.op = "read_robot_packet" /\ ret.code = 1
             /\ Len(ret.read) >= 8 /\ ret.read[8] # 1 /\ RobotBuilt) =>
             ~CarriesTimezone(ret'.packet) ]_vars

(* -------------------------------- C15 ---------------------------------- *)
\* C15: given a payload shorter than 6 bytes read_fms_packet, and given one
\* shorter than 8 bytes read_robot_packet, returns 0 and leaves the store,
\* the latches and the counters as they were; read_fms_packet returns 1 only
\* for payloads of at least 6 bytes.
C15_ShortPayloadRejected ==
    [][ /\ (ret'.op = "read_fms_packet" /\ Len(ret'.read) < 6) =>
             (ret'.code = 0 /\ UNCHANGED program)
        /\ (ret'.op = "read_robot_packet" /\ Len(ret'.read) < 8) =>
             (ret'.code = 0 /\ UNCHANGED program)
        /\ (ret'.op = "read_fms_packet" /\ ret'.code = 1) =>
             Len(ret'.read) >= 6 ]_vars

(* -------------------------------- C20 ---------------------------------- *)
\* The telemetry fields of the store, but for the one named.
TelemetryFields ==
    {"can_utilization", "cpu_usage", "ram_usage", "disk_usage"}
TelemetryKept(but) ==
    \A f \in TelemetryFields \ but : cfg'[f] = cfg[f]

\* C20: for an accepted robot packet longer than 9 bytes one extended block
\* at offset 8 is examined: tag (byte 9) 0x0e sets CAN utilization from
\* byte 18, 0x05 CPU usage from byte 11, 0x06 RAM usage from byte 12, 0x04
\* disk usage from byte 12, and the other three telemetry fields stay; for
\* any other tag all four stay, the header fields are applied and the parser
\* returns 1.  For packets of 9 bytes or fewer no telemetry field changes.
C20_ExtendedBlock ==
    [][ (ret'.op = "read_robot_packet" /\ ret'.code = 1) =>
          LET data == ret'.read
              size == Len(data)
              tag  == data[10]
          IN  /\ size <= 9 => TelemetryKept({})
              /\ (size > 9 /\ tag = 14) =>
                    /\ TelemetryKept({"can_utilization"})
                    /\ size > 18 => cfg'.can_utilization = data[19]
              /\ (size > 9 /\ tag = 5) =>
                    /\ TelemetryKept({"cpu_usage"})
                    /\ size > 11 => cfg'.cpu_usage = data[12]
              /\ (size > 9 /\ tag = 6) =>
                    /\ TelemetryKept({"ram_usage"})
                    /\ size > 12 => cfg'.ram_usage = data[13]
              /\ (size > 9 /\ tag = 4) =>
                    /\ TelemetryKept({"disk_usage"})
                    /\ size > 12 => cfg'.disk_usage = data[13]
              /\ (size > 9 /\ tag \notin {14, 5, 6, 4}) =>
                    /\ TelemetryKept({})
                    /\ cfg'.robot_code = (BitAnd(data[5], 32) # 0)
                    /\ cfg'.emergency_stopped = (BitAnd(data[4], 128) # 0)
                    /\ cfg'.robot_voltage = decode_voltage(data[6], data[7])
                    /\ (send_time_data' # 0) = (data[8] = 1) ]_vars

\* The CPU block of the documentation: a packet of 12 bytes with tag 0x05
\* and 0x57 in byte 11 has set the CPU usage to 87 and left the rest.
C20_Witness ==
    /\ ret.op = "read_robot_packet"
    /\ ret.code = 1
    /\ Len(ret.read) = 12
    /\ ret.read[10] = 5
    /\ ret.read[12] = 87
    /\ ret.before.cpu_usage = 2
    /\ cfg.cpu_usage = 87
    /\ cfg.ram_usage = 3 /\ cfg.disk_usage = 4 /\ cfg.can_utilization = 1

(* -------------------------------- C16 ---------------------------------- *)
\* C16: when read_fms_packet is given a station byte outside 0..5 it still
\* returns success and sets alliance to Red and position to P1, whatever
\* they were before.
C16_StationFallback ==
    [][ (FmsRead /\ ret'.read[6] \in 6..255) =>
          /\ ret'.code = 1
          /\ cfg'.alliance = "DS_ALLIANCE_RED"
          /\ cfg'.position = "DS_POSITION_1" ]_vars

\* Station byte 255 arrived while the store said blue 3; it now says red 1.
C16_Witness ==
    /\ ret.op = "read_fms_packet"
    /\ ret.code = 1
    /\ ret.read[6] = 255
    /\ ret.before.alliance = "DS_ALLIANCE_BLUE"
    /\ ret.before.position = "DS_POSITION_3"
    /\ cfg.alliance = "DS_ALLIANCE_RED"
    /\ cfg.position = "DS_POSITION_1"

(* -------------------------------- C17 ---------------------------------- *)
\* The size the documentation gives the block of joystick i.
BlockSize(i) == 6 + DS_GetJoystickNumAxes(i) + 2 * DS_GetJoystickNumHats(i)

\* Where the block of joystick n starts when the blocks before it have
\* that size and follow the header without a gap.
RECURSIVE BlockStart(_)
BlockStart(n) == IF n = 0 THEN 6 ELSE BlockStart(n - 1) + BlockSize(n - 1)

\* A step in which create_robot_packet appended the joystick payload and
\* returned the block it wrote.
JoysticksWritten ==
    /\ RobotBuilt
    /\ send_time_data = 0
    /\ sent_robot_packets > 5
    /\ ret'.packet \notin FreedBlocks

\* C17: for every joystick i with A axes (0..6) and H hats (0..1) the block
\* written into the robot packet occupies exactly 6 + A + 2 H bytes, its
\* first byte holds that size minus 1, its second the tag 0x0c, the button
\* count sits right after the last axis byte and the hat count after the
\* two bytes of button flags; the blocks follow each other without a gap,
\* in enumeration order.
C17_JoystickBlockLayout ==
    [][ JoysticksWritten =>
          \A i \in 0..(DS_GetJoystickCount - 1) :
             LET at == BlockStart(i)
                 A  == DS_GetJoystickNumAxes(i)
             IN  /\ Len(ret'.packet) >= at + BlockSize(i)
                 /\ ret'.packet[at + 1] = BlockSize(i) - 1
                 /\ ret'.packet[at + 2] = 12
                 /\ ret'.packet[at + 2 + A + 1] = DS_GetJoystickNumButtons(i)
                 /\ ret'.packet[at + 2 + A + 4] = DS_GetJoystickNumHats(i) ]_vars

\* The blocks as add_joystick_data lays them out: get_joystick_size (i) =
\* 7 + A + 2 H bytes each, the first byte holding that size, and the byte
\* after the last axis left unwritten before the button count.
RECURSIVE BuiltStart(_)
BuiltStart(n) ==
    IF n = 0 THEN 6 ELSE BuiltStart(n - 1) + get_joystick_size(n - 1)

JoystickBlocksAsBuilt ==
    [][ JoysticksWritten =>
          \A i \in 0..(DS_GetJoystickCount - 1) :
             LET at == BuiltStart(i)
                 A  == DS_GetJoystickNumAxes(i)
             IN  /\ get_joystick_size(i) = BlockSize(i) + 1
                 /\ ret'.packet[at + 1] = BlockSize(i) + 1
                 /\ ret'.packet[at + 2] = 12
                 /\ ret'.packet[at + 2 + A + 1] = Indet
                 /\ ret'.packet[at + 2 + A + 2] = DS_GetJoystickNumButtons(i)
                 /\ ret'.packet[at + 2 + A + 5] = DS_GetJoystickNumHats(i) ]_vars

(* -------------------------------- C18 ---------------------------------- *)
\* The fields the documentation lists for the descriptor.
DescriptorTable ==
    [fms_interval |-> 500, radio_interval |-> 0, robot_interval |-> 20,
     max_joysticks |-> 6, max_axis_count |-> 6, max_hat_count |-> 1,
     max_button_count |-> 10, fms_ports |-> <<1120, 1160>>,
     robot_ports |-> <<1150, 1110>>, netconsole_ports |-> <<6666, 6668>>,
     radio_disabled |-> 1]

\* The same fields, read from a block.
FieldsRead(block) ==
    LET ports(socket) == <<socket.input_port, socket.output_port>>
    IN  [fms_interval |-> block.fms_interval,
         radio_interval |-> block.radio_interval,
         robot_interval |-> block.robot_interval,
         max_joysticks |-> block.max_joysticks,
         max_axis_count |-> block.max_axis_count,
         max_hat_count |-> block.max_hat_count,
         max_button_count |-> block.max_button_count,
         fms_ports |-> ports(block.fms_socket),
         robot_ports |-> ports(block.robot_socket),
         netconsole_ports |-> ports(block.netconsole_socket),
         radio_disabled |-> block.radio_socket.disabled]

\* C18: over any calls of DS_GetProtocolFRC_2015, also from several threads
\* at once, the descriptor is constructed once and every call returns that
\* one descriptor, with the documented fields.
C18_SingleDescriptor ==
    /\ Len(blocks) <= 1
    /\ \A t \in Threads :
          got[t] # NoCall =>
             /\ got[t].ptr = 1
             /\ FieldsRead(got[t].fields) = DescriptorTable

\* What holds of calls that do not overlap: a call that finds every other
\* thread outside the function returns block 1 with the documented fields.
DescriptorWhenAlone ==
    [][ \A t \in Threads :
          (threads[t].at = "return" /\ threads'[t].at = "idle"
           /\ \A u \in Threads \ {t} : threads[u].at = "idle"
           /\ Len(blocks) = 1
           /\ FieldsRead(blocks[1]) = DescriptorTable) =>
             /\ got'[t].ptr = 1
             /\ FieldsRead(got'[t].fields) = DescriptorTable ]_vars

(* -------------------------------- C19 ---------------------------------- *)
\* A call of create_robot_packet, whether it returned or not.
RobotBuilderCalled ==
    /\ ret'.op \in {"create_robot_packet", "abort"}
    /\ (sent_robot_packets' # sent_robot_packets \/ alive' # alive)

\* A robot packet that is the six header bytes and then the whole timezone
\* payload: the date block of 10 bytes, the length L of the time zone
\* string, the tag 0x10 and L bytes of string.
HasTimezonePayload(packet) ==
    /\ Len(packet) >= 18
    /\ packet[7] = 11
    /\ packet[8] = 15
    /\ packet[18] = 16
    /\ Len(packet) = 18 + packet[17]
    /\ \A k \in 19..Len(packet) : packet[k] # Indet

\* C19: whenever the time-data latch is set at build time, whatever the
\* packet counter, the robot packet carries after its six header bytes the
\* timezone payload and no joystick data; with the latch clear it carries
\* no timezone payload.
C19_TimezoneWhenLatched ==
    [][ RobotBuilderCalled =>
          IF send_time_data # 0
          THEN /\ RobotBuilt
               /\ ret'.packet[1..6] = ret'.header
               /\ HasTimezonePayload(ret'.packet)
          ELSE ~CarriesTimezone(ret'.packet) ]_vars

\* The branch create_robot_packet takes: with the latch set it calls
\* add_timezone_data and never add_joystick_data, whatever the counter.
TimezoneBranchTaken ==
    [][ (RobotBuilt /\ send_time_data # 0) =>
          \/ ret'.packet \in FreedBlocks
          \/ /\ CarriesTimezone(ret'.packet)
             /\ Len(ret'.packet) \in { 8 + n : n \in TimezoneLengths } ]_vars

(* -------------------------------- C21 ---------------------------------- *)
\* Bit b of a number.
Bit(v, b) == (v \div Pow2(b)) % 2

\* C21: for every joystick with B buttons (0..10) and every combination of
\* pressed and released, the two bytes of button flags written into the
\* joystick block are a big-endian number whose bit b is set iff button b
\* is pressed, for every b in 0..B-1, buttons 8 and 9 in the high byte; the
\* byte before them is B.  The bytes are taken where add_joystick_data
\* writes them.
C21_ButtonBitfield ==
    [][ JoysticksWritten =>
          \A i \in 0..(DS_GetJoystickCount - 1) :
             LET at    == BuiltStart(i) + 2 + DS_GetJoystickNumAxes(i)
                 B     == DS_GetJoystickNumButtons(i)
                 flags == ret'.packet[at + 3] * 256 + ret'.packet[at + 4]
             IN  /\ ret'.packet[at + 2] = B
                 /\ \A b \in 0..(B - 1) :
                       (Bit(flags, b) = 1) = joysticks[i + 1].buttons[b + 1] ]_vars

\* The same for buttons 0 to 7 alone, which the low byte does carry, with
\* the high byte always 0.
ButtonLowByte ==
    [][ JoysticksWritten =>
          \A i \in 0..(DS_GetJoystickCount - 1) :
             LET at == BuiltStart(i) + 2 + DS_GetJoystickNumAxes(i)
                 B  == DS_GetJoystickNumButtons(i)
             IN  /\ ret'.packet[at + 2] = B
                 /\ ret'.packet[at + 3] = 0
                 /\ \A b \in 0..(B - 1) :
                       b < 8 => (Bit(ret'.packet[at + 4], b) = 1)
                                   = joysticks[i + 1].buttons[b + 1] ]_vars

(* -------------------------------- C22 ---------------------------------- *)
\* The calls that are neither the FMS builder nor the robot builder.
NotABuilder ==
    {"read_fms_packet", "read_robot_packet", "read_radio_packet",
     "reset_fms", "reset_radio", "reset_robot", "reboot_robot",
     "restart_robot_code", "create_radio_packet"}

\* C22: sent_fms_packets is modified by create_fms_packet alone and
\* sent_robot_packets by create_robot_packet alone: the parsers, the reset
\* hooks, reboot_robot, restart_robot_code and create_radio_packet leave
\* both counters as they are, and each builder the other's.
C22_CountersFrame ==
    [][ /\ ret'.op \in NotABuilder =>
             UNCHANGED <<sent_fms_packets, sent_robot_packets>>
        /\ ret'.op = "create_fms_packet" => UNCHANGED sent_robot_packets
        /\ ret'.op \in {"create_robot_packet", "abort"} =>
             UNCHANGED sent_fms_packets
        /\ sent_fms_packets' # sent_fms_packets =>
             ret'.op = "create_fms_packet"
        /\ sent_robot_packets' # sent_robot_packets =>
             ret'.op = "create_robot_packet" ]_vars

\* reset_robot has run after packets of both peers, with a latch to clear,
\* and both counters are what they were.
C22_Witness ==
    /\ ret.op = "reset_robot"
    /\ ret.latched[1] = 1
    /\ sent_fms_packets = 2
    /\ sent_robot_packets = 3

(* -------------------------------- C23 ---------------------------------- *)
\* C23: a peer's watchdog hook resets that peer's packet counter with the
\* latches: reset_robot leaves sent_robot_packets at 0 and the robot packet
\* built next stores index 0, reset_fms leaves sent_fms_packets at 0 and
\* the FMS packet built next has index 0.
C23_ResetClearsCounter ==
    [][ /\ ret'.op = "reset_robot" => sent_robot_packets' = 0
        /\ ret'.op = "reset_fms" => sent_fms_packets' = 0
        /\ (ret.op = "reset_robot" /\ RobotBuilt) =>
             PacketIndex(ret'.header) = 0
        /\ (ret.op = "reset_fms" /\ FmsBuilt) =>
             PacketIndex(ret'.packet) = 0 ]_vars

(* -------------------------------- C25 ---------------------------------- *)
\* C25: the reboot and restart-code latches are not consumed by emission:
\* once set, a latch stays set over every call but reset_robot, and over
\* robot comms going down and up, and every robot packet built while robot
\* comms is up carries request code 0x08 with reboot set, 0x04 with
\* restart-code set and reboot clear.
C25_LatchesUntilReset ==
    [][ /\ (reboot # 0 /\ ret'.op # "reset_robot") => reboot' # 0
        /\ (restart_code # 0 /\ ret'.op # "reset_robot") => restart_code' # 0
        /\ (RobotBuilt /\ cfg.robot_communications /\ reboot # 0) =>
             ret'.packet[5] = 8
        /\ (RobotBuilt /\ cfg.robot_communications /\ reboot = 0
             /\ restart_code # 0) =>
             ret'.packet[5] = 4 ]_vars

\* The same of the request code the builder stores in byte [4].
StoredRequestUntilReset ==
    [][ /\ (reboot # 0 /\ ret'.op # "reset_robot") => reboot' # 0
        /\ (restart_code # 0 /\ ret'.op # "reset_robot") => restart_code' # 0
        /\ (RobotBuilt /\ cfg.robot_communications /\ reboot # 0) =>
             ret'.header[5] = 8
        /\ (RobotBuilt /\ cfg.robot_communications /\ reboot = 0
             /\ restart_code # 0) =>
             ret'.header[5] = 4 ]_vars

(* -------------------------------- C24 ---------------------------------- *)
\* The calls other than read_fms_packet.
NotTheFmsParser ==
    {"read_robot_packet", "read_radio_packet", "create_fms_packet",
     "create_radio_packet", "create_robot_packet", "abort", "reset_fms",
     "reset_radio", "reset_robot", "reboot_robot", "restart_robot_code"}

\* C24: control mode and enabled flag are written by read_fms_packet alone:
\* read_robot_packet, with or without an extended block, read_radio_packet,
\* the three builders, the reset hooks, reboot_robot and restart_robot_code
\* leave control mode, enabled, alliance and position as they are, and
\* read_fms_packet leaves e-stop, robot-has-code, voltage, telemetry and the
\* three latches as they are.
C24_StoreFrame ==
    [][ /\ ret'.op \in NotTheFmsParser =>
             /\ cfg'.control_mode = cfg.control_mode
             /\ cfg'.robot_enabled = cfg.robot_enabled
             /\ cfg'.alliance = cfg.alliance
             /\ cfg'.position = cfg.position
        /\ ret'.op = "read_fms_packet" =>
             /\ cfg'.emergency_stopped = cfg.emergency_stopped
             /\ cfg'.robot_code = cfg.robot_code
             /\ cfg'.robot_voltage = cfg.robot_voltage
             /\ \A f \in TelemetryFields : cfg'[f] = cfg[f]
             /\ UNCHANGED <<reboot, restart_code, send_time_data>> ]_vars

\* A robot packet with a disk block arrived while the store said
\* autonomous, disabled, blue 3: the disk usage is set and these four are
\* what they were.
C24_Witness ==
    /\ ret.op = "read_robot_packet"
    /\ ret.code = 1
    /\ Len(ret.read) > 9
    /\ ret.read[10] = 4
    /\ cfg.disk_usage = 77
    /\ ret.before.control_mode = "DS_CONTROL_AUTONOMOUS"
    /\ ~ret.before.robot_enabled
    /\ ret.before.alliance = "DS_ALLIANCE_BLUE"
    /\ ret.before.position = "DS_POSITION_3"
    /\ cfg.control_mode = "DS_CONTROL_AUTONOMOUS"
    /\ ~cfg.robot_enabled
    /\ cfg.alliance = "DS_ALLIANCE_BLUE"
    /\ cfg.position = "DS_POSITION_3"

(* -------------------------------- C26 ---------------------------------- *)
\* The station code of an alliance and a position.
StationOf(a, p) ==
    (IF a = "DS_ALLIANCE_RED" THEN 0 ELSE 3)
    + (CASE p = "DS_POSITION_1" -> 0
         [] p = "DS_POSITION_2" -> 1
         [] p = "DS_POSITION_3" -> 2)

\* A builder that ran statement by statement returns its packet.
FmsBuiltStepwise == FmsBuilt /\ building.at = "team_low"
RobotBuiltStepwise == RobotBuilt /\ building.at # "idle"

\* C26: with setters of the store running between the statements of a
\* builder, bytes [4..6) of the FMS packet are the big-endian split of one
\* team number the store held during the build, and byte [5] of the robot
\* packet is the station code of an alliance and of a position the store
\* held during the build.
C26_FieldsNotTorn ==
    [][ /\ FmsBuiltStepwise =>
             \E team \in building.teams :
                /\ ret'.packet[5] = team \div 256
                /\ ret'.packet[6] = team % 256
        /\ RobotBuiltStepwise =>
             \E a \in building.alliances, p \in building.positions :
                ret'.packet[6] = StationOf(a, p) ]_vars

\* What does hold: each of the two team bytes, taken alone, is that byte of
\* a team number the store held, and the station byte is one of 0..5.
EachByteHeld ==
    [][ /\ FmsBuiltStepwise =>
             /\ \E team \in building.teams : ret'.packet[5] = team \div 256
             /\ \E team \in building.teams : ret'.packet[6] = team % 256
        /\ RobotBuiltStepwise => ret'.packet[6] \in 0..5 ]_vars

====
